---- MODULE Spec2Model ----
(***************************************************************************)
(* Event-driven backtest simulation: Portfolio (pipeline/backtest/         *)
(* portfolio.py), EntryExitStrategy (strategy.py) and the trade simulation *)
(* loop of BacktestEngine.run (engine.py).                                 *)
(*                                                                         *)
(* Prices, cash and allocations are exact numbers: a price is an integer   *)
(* number of ticks, and an allocation is a fraction num/den (the engine    *)
(* passes cash / N).  Dates are day numbers, so that the difference of two *)
(* dates is the number of calendar days between them.  Python dicts are    *)
(* sequences of records in insertion order, keyed by the field code.       *)
(* FloatSpec redoes the buys of one date in rounded binary floating point. *)
(***************************************************************************)
EXTENDS Integers, Sequences, FiniteSets, TLC

\* ---------------------------------------------------------------- bounds
MaxDays == 3            \* longest trading calendar
MaxGap == 2             \* largest number of calendar days between trading dates
MaxWindow == 1          \* largest entry_window
MaxOps == 3             \* longest sequence of direct Portfolio calls
MantissaBits == 8       \* width of the significand of a float (53 in Python)
FractionBits == 8       \* floats are held as multiples of 2^-FractionBits
MinCash == 200          \* cash of the floating-point runs, in whole units
MaxCash == 255

Codes == {"A", "B"}
Prices == {10, 11, 12}
Capitals == {0, 1000, 2300}
RunCapitals == {2300}
Amounts == {-1000, 900, 1000, 2300, 3000}
CallDates == {1, 2}
\* <<stop_loss_pct, max_hold_days>>: both disabled (the defaults), or one of them set
ExitRules == {<<0, 0>>, <<9, 0>>, <<0, 2>>}
OpenOffsets == {0, 1}
\* closes, entry prices (in ticks of 0.1) and percentages of direct calls of should_exit
ExitCloses == {90, 94, 95, 100, 105, 110, 120}
ExitEntries == {-100, 0, 50, 100}
TakeProfits == {5, 10}
StopLosses == {0, 5, 10}

\* ---------------------------------------------------------------- constants
LotSize == 100
MAX_RETRIES == 3
DefaultTakeProfit == 10

NoBar == [open |-> 0, close |-> 0]
None == [code |-> "", name |-> "", entry_date |-> 0, entry_price |-> 0, shares |-> 0]

VARIABLES
    pc,             \* position in run: loop, exits, pending, entries, signals,
                    \* nav, close, done, aborted (an exception left run);
                    \* "api" when Portfolio is driven directly
    portfolio,      \* [initial_capital, cash, positions, closed_trades]
    pending,        \* dict code -> PendingSignal
    nav_history,    \* list of <<date, nav>>
    entries_today,  \* list of [code, name, price]
    cfg,            \* entry_window, take_profit_pct, stop_loss_pct, max_hold_days
    stock_order,    \* iteration order of stock_data
    zero_close,     \* the price data may hold a bar with a close of 0
    day,            \* number of trading dates taken from all_dates so far
    date,           \* the current trading date
    bar,            \* price_lookup[code][date] for each code, NoBar if absent
    signals,        \* the codes of signals[date]
    signalled,      \* some date taken so far has a signal
    before_close,   \* the positions open when the loop ended
    twin,           \* a second run on the same data whose signal lists are permuted
    fp,             \* the buys of one date in floating point: cash, prices, outcome
    today,          \* the portfolio and the pending dict the current date began
                    \* with, and the entries and the per_stock of its buys
    call,           \* the last direct call of Portfolio and its arguments
    prev,           \* portfolio before that call
    ret,            \* what that call returned
    ops,            \* number of direct calls made
    bought,         \* sum of shares x price over the buys that created a position
    sold            \* sum of shares x price over the sells that appended a trade

vars == <<pc, portfolio, pending, nav_history, entries_today, cfg, stock_order, zero_close,
          day, date, bar, signals, signalled,
          before_close, twin, today, call, prev, ret, ops, bought, sold, fp>>

run_vars == <<pending, nav_history, entries_today, cfg, stock_order, zero_close,
              day, date, bar, signals, signalled>>
engine_vars == <<run_vars, before_close, twin, today>>
api_vars == <<call, prev, ret, ops, bought, sold, fp>>

\* ---------------------------------------------------------------- dicts
has_key(d, code) == \E i \in DOMAIN d : d[i].code = code

dict_get(d, code) == d[CHOOSE i \in DOMAIN d : d[i].code = code]

dict_get_or(d, code, default) == IF has_key(d, code) THEN dict_get(d, code) ELSE default

dict_pop(d, code) == SelectSeq(d, LAMBDA r : r.code # code)

dict_set(d, rec) ==
    IF has_key(d, rec.code)
    THEN [i \in DOMAIN d |-> IF d[i].code = rec.code THEN rec ELSE d[i]]
    ELSE Append(d, rec)

\* int(): truncation toward zero of num / den, den > 0
int_div(num, den) == IF num >= 0 THEN num \div den ELSE -((-num) \div den)

\* ---------------------------------------------------------------- Portfolio
Portfolio(initial_capital) ==
    [initial_capital |-> initial_capital, cash |-> initial_capital,
     positions |-> <<>>, closed_trades |-> <<>>]

has_position(p, code) == has_key(p.positions, code)

\* a buy that does not round down to the lot
buy_shares_unrounded(amount, price) == int_div(amount.num, amount.den * price)

\* shares = int(amount / price / 100) * 100
buy_shares(amount, price) == int_div(amount.num, amount.den * price * LotSize) * LotSize

bought_position(p, code, name, price, d, shares) ==
    [p EXCEPT !.cash = @ - shares * price,
              !.positions = dict_set(@, [code |-> code, name |-> name,
                                         entry_date |-> d, entry_price |-> price,
                                         shares |-> shares])]

\* a buy that does not compare the cost with the cash
buy_without_cash_check(p, code, name, price, d, amount) ==
    LET shares == buy_shares(amount, price)
    IN  IF has_position(p, code) \/ shares <= 0 THEN p
        ELSE bought_position(p, code, name, price, d, shares)

\* a buy that does not look for an open position
buy_without_position_check(p, code, name, price, d, amount) ==
    LET shares == buy_shares(amount, price)
    IN  IF shares <= 0 \/ shares * price > p.cash THEN p
        ELSE bought_position(p, code, name, price, d, shares)

\* a buy that lets a count of zero shares through
buy_allowing_zero_shares(p, code, name, price, d, amount) ==
    LET shares == buy_shares(amount, price)
    IN  IF has_position(p, code) \/ shares < 0 \/ shares * price > p.cash THEN p
        ELSE bought_position(p, code, name, price, d, shares)

buy(p, code, name, price, d, amount) ==
    LET shares == buy_shares(amount, price)
        cost == shares * price
    IN  IF has_position(p, code) THEN p
        ELSE IF shares <= 0 THEN p
        ELSE IF cost > p.cash THEN p
        ELSE bought_position(p, code, name, price, d, shares)

\* a Trade that records the exit price as the entry price
Trade_with_entry_overwritten(pos, exit_date, exit_price) ==
    [code |-> pos.code, name |-> pos.name,
     entry_date |-> pos.entry_date, entry_price |-> exit_price,
     exit_date |-> exit_date, exit_price |-> exit_price, shares |-> pos.shares]

Trade(pos, exit_date, exit_price) ==
    [code |-> pos.code, name |-> pos.name,
     entry_date |-> pos.entry_date, entry_price |-> pos.entry_price,
     exit_date |-> exit_date, exit_price |-> exit_price, shares |-> pos.shares]

\* a sell that credits the cost of the position, not its proceeds
sell_at_entry_price(p, code, price, d) ==
    LET pos == dict_get_or(p.positions, code, None)
    IN  IF pos = None THEN p
        ELSE [p EXCEPT !.positions = dict_pop(@, code),
                       !.cash = @ + pos.shares * pos.entry_price,
                       !.closed_trades = Append(@, Trade(pos, d, price))]

\* a sell that does not look at what pop returned
sell_without_check(p, code, price, d) ==
    LET pos == dict_get_or(p.positions, code, None)
    IN  [p EXCEPT !.positions = dict_pop(@, code),
                  !.cash = @ + pos.shares * price,
                  !.closed_trades = Append(@, Trade(pos, d, price))]

sell(p, code, price, d) ==
    LET pos == dict_get_or(p.positions, code, None)
    IN  IF pos = None THEN p
        ELSE [p EXCEPT !.positions = dict_pop(@, code),
                       !.cash = @ + pos.shares * price,
                       !.closed_trades = Append(@, Trade(pos, d, price))]

\* a valuation that counts nothing for a position without a market price
RECURSIVE position_value_missing_as_zero(_, _)
position_value_missing_as_zero(positions, market_prices) ==
    IF positions = <<>> THEN 0
    ELSE LET pos == Head(positions)
             mark == IF pos.code \in DOMAIN market_prices
                     THEN market_prices[pos.code] ELSE 0
         IN  pos.shares * mark
             + position_value_missing_as_zero(Tail(positions), market_prices)

RECURSIVE position_value(_, _)
position_value(positions, market_prices) ==
    IF positions = <<>> THEN 0
    ELSE LET pos == Head(positions)
             mark == IF pos.code \in DOMAIN market_prices
                     THEN market_prices[pos.code] ELSE pos.entry_price
         IN  pos.shares * mark + position_value(Tail(positions), market_prices)

\* a net asset value that leaves the cash out
get_nav_without_cash(p, market_prices) == position_value(p.positions, market_prices)

get_nav(p, market_prices) == p.cash + position_value(p.positions, market_prices)

\* ---------------------------------------------------------------- EntryExitStrategy
EntryExitStrategy(entry_window, take_profit_pct, stop_loss_pct, max_hold_days) ==
    [entry_window |-> entry_window, take_profit_pct |-> take_profit_pct,
     stop_loss_pct |-> stop_loss_pct, max_hold_days |-> max_hold_days]

\* a candle test that also passes close = open
is_bearish_candle_or_flat(row) == row.close <= row.open

is_bearish_candle(row) == row.close < row.open

\* return_pct = (close - entry_price) / entry_price * 100, compared exactly
\* an exit that needs a return above take_profit_pct
should_exit_above_take_profit(strategy, close, entry_price) ==
    IF entry_price <= 0 THEN FALSE
    ELSE IF (close - entry_price) * 100 > strategy.take_profit_pct * entry_price THEN TRUE
    ELSE IF strategy.stop_loss_pct > 0
            /\ (close - entry_price) * 100 <= (0 - strategy.stop_loss_pct) * entry_price THEN TRUE
    ELSE FALSE

should_exit(strategy, close, entry_price) ==
    IF entry_price <= 0 THEN FALSE
    ELSE IF (close - entry_price) * 100 >= strategy.take_profit_pct * entry_price THEN TRUE
    ELSE IF strategy.stop_loss_pct > 0
            /\ (close - entry_price) * 100 <= (0 - strategy.stop_loss_pct) * entry_price THEN TRUE
    ELSE FALSE

\* ---------------------------------------------------------------- BacktestEngine.run
has_bar(price_lookup, code) == price_lookup[code] # NoBar

\* a holding time that leaves the entry date out
hold_days_after_entry(d, entry_date) == d - entry_date - 1

\* (datetime.strptime(date) - datetime.strptime(entry_date)).days
hold_days(d, entry_date) == d - entry_date

\* an exit evaluation that sells a position held long enough at its entry
\* price when its instrument has no bar
RECURSIVE codes_to_sell_without_bar(_, _, _, _)
codes_to_sell_without_bar(positions, d, price_lookup, strategy) ==
    IF positions = <<>> THEN <<>>
    ELSE LET pos == Head(positions)
             rest == codes_to_sell_without_bar(Tail(positions), d, price_lookup, strategy)
             close == IF has_bar(price_lookup, pos.code)
                      THEN price_lookup[pos.code].close ELSE pos.entry_price
             item == <<[code |-> pos.code, price |-> close]>>
         IN  IF should_exit(strategy, close, pos.entry_price) THEN item \o rest
             ELSE IF strategy.max_hold_days > 0
                     /\ hold_days(d, pos.entry_date) >= strategy.max_hold_days THEN item \o rest
             ELSE rest

RECURSIVE codes_to_sell(_, _, _, _)
codes_to_sell(positions, d, price_lookup, strategy) ==
    IF positions = <<>> THEN <<>>
    ELSE LET pos == Head(positions)
             rest == codes_to_sell(Tail(positions), d, price_lookup, strategy)
             close == price_lookup[pos.code].close
             item == <<[code |-> pos.code, price |-> close]>>
         IN  IF ~has_bar(price_lookup, pos.code) THEN rest
             ELSE IF should_exit(strategy, close, pos.entry_price) THEN item \o rest
             ELSE IF strategy.max_hold_days > 0
                     /\ hold_days(d, pos.entry_date) >= strategy.max_hold_days THEN item \o rest
             ELSE rest

RECURSIVE sell_all(_, _, _)
sell_all(p, to_sell, d) ==
    IF to_sell = <<>> THEN p
    ELSE sell_all(sell(p, Head(to_sell).code, Head(to_sell).price, d), Tail(to_sell), d)

\* (a) the exits of one day
check_exits(p, d, price_lookup, strategy) ==
    sell_all(p, codes_to_sell(p.positions, d, price_lookup, strategy), d)

enters(sig, price_lookup) ==
    has_bar(price_lookup, sig.code) /\ is_bearish_candle(price_lookup[sig.code])

RECURSIVE entries_of(_, _)
entries_of(pend, price_lookup) ==
    IF pend = <<>> THEN <<>>
    ELSE LET sig == Head(pend)
             rest == entries_of(Tail(pend), price_lookup)
         IN  IF enters(sig, price_lookup)
             THEN <<[code |-> sig.code, name |-> sig.name,
                     price |-> price_lookup[sig.code].close]>> \o rest
             ELSE rest

\* an expiry that does not let a signal wait its last day
is_expired_at_window(sig, price_lookup, strategy) ==
    ~enters(sig, price_lookup) /\ sig.days_waited >= strategy.entry_window

is_expired(sig, price_lookup, strategy) ==
    ~enters(sig, price_lookup) /\ sig.days_waited > strategy.entry_window

\* an expiry that passes over a signal whose instrument has no bar
drop_expired_only_with_bar(pend, price_lookup, strategy) ==
    SelectSeq(pend, LAMBDA sig : ~(has_bar(price_lookup, sig.code)
                                     /\ is_expired(sig, price_lookup, strategy)))

drop_expired(pend, price_lookup, strategy) ==
    SelectSeq(pend, LAMBDA sig : ~is_expired(sig, price_lookup, strategy))

\* a per_stock computed from the cash the date began with, before its exits
per_stock_before_exits(p, entries) ==
    [num |-> today.portfolio.cash, den |-> Len(entries)]

\* cash / len(entries_today)
per_stock(p, entries) == [num |-> p.cash, den |-> Len(entries)]

\* the entrant at which amount / price raises ZeroDivisionError, 0 if none
raises_at(entries) ==
    IF \E i \in DOMAIN entries : entries[i].price = 0
    THEN CHOOSE i \in DOMAIN entries :
            /\ entries[i].price = 0
            /\ \A j \in 1..(i - 1) : entries[j].price # 0
    ELSE 0

\* buys that split the cash left again before each buy
RECURSIVE buy_entries_resplit(_, _, _, _)
buy_entries_resplit(p, entries, d, amount) ==
    IF entries = <<>> THEN p
    ELSE LET e == Head(entries)
         IN  buy_entries_resplit(buy(p, e.code, e.name, e.price, d, per_stock(p, entries)),
                                 Tail(entries), d, amount)

RECURSIVE buy_entries(_, _, _, _)
buy_entries(p, entries, d, amount) ==
    IF entries = <<>> THEN p
    ELSE LET e == Head(entries)
         IN  buy_entries(buy(p, e.code, e.name, e.price, d, amount), Tail(entries), d, amount)

\* a loop over entries_today that leaves the entrants pending
pop_entries_left_pending(pend, entries) == pend

RECURSIVE pop_entries(_, _)
pop_entries(pend, entries) ==
    IF entries = <<>> THEN pend
    ELSE pop_entries(dict_pop(pend, Head(entries).code), Tail(entries))

PendingSignal(code, name, signal_date) ==
    [code |-> code, name |-> name, signal_date |-> signal_date, days_waited |-> 0]

\* an admission that does not look for an open position
admissible_without_position_check(pend, p, code) == ~has_key(pend, code)

\* an admission that does not look for a pending signal
admissible_without_pending_check(pend, p, code) == ~has_position(p, code)

\* not portfolio.has_position(code) and code not in pending
admissible(pend, p, code) == ~has_position(p, code) /\ ~has_key(pend, code)

RECURSIVE admit(_, _, _, _)
admit(pend, p, todays, d) ==
    IF todays = <<>> THEN pend
    ELSE LET s == Head(todays)
             next == IF admissible(pend, p, s.code)
                     THEN dict_set(pend, PendingSignal(s.code, s.name, d))
                     ELSE pend
         IN  admit(next, p, Tail(todays), d)

market_prices_of(p, price_lookup) ==
    [code \in {c \in Codes : has_position(p, c) /\ has_bar(price_lookup, c)}
        |-> price_lookup[code].close]

\* a liquidation at the open of the last day
RECURSIVE force_close_at_open(_, _, _, _)
force_close_at_open(p, keys, last_date, price_lookup) ==
    IF keys = <<>> THEN p
    ELSE LET code == Head(keys).code
             next == IF has_bar(price_lookup, code)
                     THEN sell(p, code, price_lookup[code].open, last_date)
                     ELSE p
         IN  force_close_at_open(next, Tail(keys), last_date, price_lookup)

RECURSIVE force_close(_, _, _, _)
force_close(p, keys, last_date, price_lookup) ==
    IF keys = <<>> THEN p
    ELSE LET code == Head(keys).code
             next == IF has_bar(price_lookup, code)
                     THEN sell(p, code, price_lookup[code].close, last_date)
                     ELSE p
         IN  force_close(next, Tail(keys), last_date, price_lookup)

\* a final_nav that reads the first snapshot
final_nav_of_first_day == IF nav_history # <<>> THEN nav_history[1][2]
                          ELSE portfolio.initial_capital

final_nav == IF nav_history # <<>> THEN nav_history[Len(nav_history)][2]
             ELSE portfolio.initial_capital

\* ---------------------------------------------------------------- metrics
\* A quotient of two numbers is held exactly, as num / den with den > 0.
quotient(num, den) ==
    IF den < 0 THEN [num |-> -num, den |-> -den] ELSE [num |-> num, den |-> den]

greater(x, y) == x.num * y.den > y.num * x.den

plus(x, y) == [num |-> x.num * y.den + y.num * x.den, den |-> x.den * y.den]

ratio(x, y) == quotient(x.num * y.den, x.den * y.num)

abs(x) == IF x.num < 0 THEN [x EXCEPT !.num = -x.num] ELSE x

RECURSIVE sum(_)
sum(list) == IF list = <<>> THEN quotient(0, 1) ELSE plus(Head(list), sum(Tail(list)))

RECURSIVE max(_)
max(list) ==
    IF Len(list) = 1 THEN Head(list)
    ELSE LET rest == max(Tail(list))
         IN  IF greater(rest, Head(list)) THEN rest ELSE Head(list)

RECURSIVE min(_)
min(list) ==
    IF Len(list) = 1 THEN Head(list)
    ELSE LET rest == min(Tail(list))
         IN  IF greater(Head(list), rest) THEN rest ELSE Head(list)

RECURSIVE pow10(_)
pow10(n) == IF n = 0 THEN 1 ELSE 10 * pow10(n - 1)

\* round(x, ndigits): the nearest multiple of 10^-ndigits, a tie to the even
\* one; the result is held in units of 10^-ndigits (10.0 is 1000 for 2 digits)
round(x, ndigits) ==
    LET n == x.num * pow10(ndigits)
        q == n \div x.den
        r == n - q * x.den
    IN  IF 2 * r < x.den THEN q
        ELSE IF 2 * r > x.den THEN q + 1
        ELSE IF q % 2 = 0 THEN q ELSE q + 1

\* a pnl per share
pnl_per_share(t) == t.exit_price - t.entry_price

\* Trade.pnl
pnl(t) == (t.exit_price - t.entry_price) * t.shares

\* Trade.return_pct
return_pct(t) ==
    IF t.entry_price = 0 THEN quotient(0, 1)
    ELSE quotient((t.exit_price - t.entry_price) * 100, t.entry_price)

\* Trade.holding_days
holding_days(t) == t.exit_date - t.entry_date

\* a loop that keeps the initial capital as the peak
RECURSIVE max_drawdown_below_capital(_, _, _)
max_drawdown_below_capital(nav_hist, peak, max_dd) ==
    IF nav_hist = <<>> THEN max_dd
    ELSE LET nav == Head(nav_hist)[2]
             dd == quotient((peak - nav) * 100, peak)
         IN  max_drawdown_below_capital(Tail(nav_hist), peak,
                                        IF greater(dd, max_dd) THEN dd ELSE max_dd)

\* the loop of calc_metrics over nav_history, from the peak and the max_dd so far
RECURSIVE max_drawdown(_, _, _)
max_drawdown(nav_hist, peak, max_dd) ==
    IF nav_hist = <<>> THEN max_dd
    ELSE LET nav == Head(nav_hist)[2]
             raised == IF nav > peak THEN nav ELSE peak
             dd == quotient((raised - nav) * 100, raised)
         IN  max_drawdown(Tail(nav_hist), raised,
                          IF greater(dd, max_dd) THEN dd ELSE max_dd)

\* [t.return_pct for t in trades]
returns_of(trades) == [i \in DOMAIN trades |-> return_pct(trades[i])]

\* the entries of calc_metrics under "if trades"
trade_statistics(trades) ==
    LET positive(t) == greater(return_pct(t), quotient(0, 1))
        negative(t) == ~positive(t)
        winners == SelectSeq(trades, positive)
        losers == SelectSeq(trades, negative)
        avg_win == IF winners # <<>>
                   THEN ratio(sum(returns_of(winners)), quotient(Len(winners), 1))
                   ELSE quotient(0, 1)
        avg_loss == IF losers # <<>>
                    THEN abs(ratio(sum(returns_of(losers)), quotient(Len(losers), 1)))
                    ELSE quotient(0, 1)
        days == [i \in DOMAIN trades |-> quotient(holding_days(trades[i]), 1)]
    IN  ("win_rate_pct" :> round(quotient(Len(winners) * 100, Len(trades)), 2))
        @@ ("profit_loss_ratio" :> IF avg_loss.num > 0 THEN round(ratio(avg_win, avg_loss), 2)
                                   ELSE "inf")
        @@ ("avg_holding_days" :> round(ratio(sum(days), quotient(Len(trades), 1)), 1))
        @@ ("max_win_pct" :> round(max(returns_of(trades)), 2))
        @@ ("max_loss_pct" :> round(min(returns_of(trades)), 2))

\* the entries of calc_metrics that do not depend on the trades; the
\* annualized return is a power with the exponent 250 / trading_days and is
\* kept as its base and its exponent
nav_metrics(nav_hist, initial_capital) ==
    LET nav_last == nav_hist[Len(nav_hist)][2]
        trading_days == Len(nav_hist)
    IN  ("total_return_pct" :> round(quotient((nav_last - initial_capital) * 100,
                                              initial_capital), 2))
        @@ (IF trading_days > 1
            THEN "annualized_return_pct" :>
                     [base |-> quotient(nav_last, initial_capital),
                      exponent |-> quotient(250, trading_days)]
            ELSE <<>>)
        @@ ("max_drawdown_pct" :>
                round(max_drawdown(nav_hist, initial_capital, quotient(0, 1)), 2))

\* a calc_metrics that counts the trades only when there is one
calc_metrics_counting_under_guard(trades, nav_hist, initial_capital) ==
    IF nav_hist = <<>> THEN <<>>
    ELSE nav_metrics(nav_hist, initial_capital)
         @@ (IF trades # <<>>
             THEN ("total_trades" :> Len(trades)) @@ trade_statistics(trades)
             ELSE <<>>)

calc_metrics(trades, nav_hist, initial_capital) ==
    IF nav_hist = <<>> THEN <<>>
    ELSE nav_metrics(nav_hist, initial_capital)
         @@ ("total_trades" :> Len(trades))
         @@ (IF trades # <<>> THEN trade_statistics(trades) ELSE <<>>)

\* ---------------------------------------------------------------- fetcher
\* A stock code is its market prefix ("sh", "sz" or none) and its digits, of
\* which only the first matters; a frame is the list of its rows.
FetchCodes ==
    {[market |-> "", first |-> 0], [market |-> "", first |-> 6],
     [market |-> "sh", first |-> 6], [market |-> "sz", first |-> 0]}

\* what one pass of the try block meets: the query raises; the query answers
\* and reading or converting its rows raises; the answer carries an error code
\* or no rows; the answer has rows
Outcomes == {"query_raises", "rows_raise", "error_code", "no_rows", "rows"}

raises(outcome) == outcome \in {"query_raises", "rows_raise"}

bs_code_of(code) ==
    IF code.market # "" THEN code
    ELSE [code EXCEPT !.market = IF code.first = 6 THEN "sh" ELSE "sz"]

\* the frame of n rows, with the code column stripped of its prefix
frame(code, n) == [i \in 1..n |-> [code |-> [code EXCEPT !.market = ""], date |-> i]]

\* an except clause that waits after every failure
retries_left_after_last(attempt) == attempt < MAX_RETRIES

\* if attempt < self.MAX_RETRIES - 1
retries_left(attempt) == attempt < MAX_RETRIES - 1

no_fetch(code, logged_in) ==
    [op |-> "get_stock_history", code |-> code, bs_code |-> code, logged_in |-> logged_in,
     attempt |-> 0, outcomes |-> <<>>, log |-> <<>>]

\* ---------------------------------------------------------------- float
\* A float is m * 2^e with 0 <= m < 2^MantissaBits; it is held as the integer
\* value * Scale.  Every operation rounds its exact result to the nearest
\* float, ties to the even significand (IEEE 754, the arithmetic of Python).
RECURSIVE pow2(_)
pow2(n) == IF n = 0 THEN 1 ELSE 2 * pow2(n - 1)

Scale == pow2(FractionBits)

\* the spacing of the floats around q
RECURSIVE float_unit(_, _)
float_unit(q, u) == IF q < pow2(MantissaBits) * u THEN u ELSE float_unit(q, 2 * u)

\* the float nearest to a / b
float_round(a, b) ==
    LET u == float_unit(a \div b, 1)
        m == a \div (b * u)
        twice_rest == 2 * (a - m * b * u)
        up == twice_rest > b * u \/ (twice_rest = b * u /\ m % 2 = 1)
    IN  (IF up THEN m + 1 ELSE m) * u

is_float(x) == float_round(x, 1) = x

\* float(n) of an int
to_float(n) == float_round(n * Scale, 1)

\* x / y, x * y, x - y and int(x)
float_div(x, y) == float_round(x * Scale, y)
float_mul(x, y) == float_round(x * y, Scale)
float_sub(x, y) == float_round(x - y, 1)
float_int(x) == x \div Scale

\* shares = int(amount / price / 100) * 100
float_shares(amount, price) ==
    float_int(float_div(float_div(amount, price), to_float(LotSize))) * LotSize

\* Portfolio.buy on floats, for an instrument with no position: the cash left,
\* the shares bought and why the buy returned
float_buy(cash, price, amount) ==
    LET shares == float_shares(amount, price)
        cost == float_mul(to_float(shares), price)
    IN  IF shares <= 0 THEN [cash |-> cash, shares |-> 0, returned |-> "shares <= 0"]
        ELSE IF cost > cash THEN [cash |-> cash, shares |-> 0, returned |-> "cost > cash"]
        ELSE [cash |-> float_sub(cash, cost), shares |-> shares, returned |-> "bought"]

\* for code, name, price in entries_today: portfolio.buy(..., per_stock)
RECURSIVE float_buy_entries(_, _, _)
float_buy_entries(cash, prices, amount) ==
    IF prices = <<>> THEN <<>>
    ELSE LET b == float_buy(cash, Head(prices), amount)
         IN  <<b>> \o float_buy_entries(b.cash, Tail(prices), amount)

\* per_stock = portfolio.cash / len(entries_today)
float_per_stock(cash, prices) == float_div(cash, to_float(Len(prices)))

\* ---------------------------------------------------------------- inputs
Bars == {[open |-> c + o, close |-> c] : c \in Prices, o \in OpenOffsets}

\* a bar that closed at 0
ZeroBars == {[open |-> 1, close |-> 0]}

Orders == {o \in [1..Cardinality(Codes) -> Codes] : \A i, j \in DOMAIN o : i # j => o[i] # o[j]}

\* stock_names.get(code, "")
stock_names(code) == IF code = "A" THEN "Alpha" ELSE "Beta"

\* signals[date]: the passing codes in the iteration order of stock_data
RECURSIVE signal_list(_, _)
signal_list(order, passed) ==
    IF order = <<>> THEN <<>>
    ELSE (IF Head(order) \in passed
          THEN <<[code |-> Head(order), name |-> stock_names(Head(order))]>> ELSE <<>>)
         \o signal_list(Tail(order), passed)

\* an advance that first admits the signals of the current date
advance_after_admission(pend) ==
    LET admitted == admit(pend, portfolio, signal_list(stock_order, signals), date)
    IN  [i \in DOMAIN admitted |-> [admitted[i] EXCEPT !.days_waited = @ + 1]]

\* sig.days_waited += 1 for every pending signal
advance(pend) == [i \in DOMAIN pend |-> [pend[i] EXCEPT !.days_waited = @ + 1]]

no_bars == [c \in Codes |-> NoBar]
no_day == [portfolio |-> None, pending |-> <<>>, entries |-> <<>>, per_stock |-> None]
no_float == [cash |-> 0, prices |-> <<>>, per_stock |-> 0, buys |-> <<>>, swapped |-> <<>>]

\* a list from its last element to its first
reversed(list) == [i \in DOMAIN list |-> list[Len(list) + 1 - i]]

\* the floats of a cash balance and of a price between 1 and 1.25
FloatCash == {c * Scale : c \in MinCash..MaxCash} \cap {x \in 0..(MaxCash * Scale) : is_float(x)}
FloatPrices == {x \in Scale..((5 * Scale) \div 4) : is_float(x)}

\* the inputs of a direct call of calc_metrics: a capital, NAV values around
\* it, and trades that win, lose and break even
MetricsCapitals == {100}
NavValues == {90, 99, 100, 105, 110}
MaxNavs == 4
MaxTrades == 2
MaxRows == 2
MetricsTrades ==
    {Trade([code |-> "A", name |-> stock_names("A"), entry_date |-> 1,
            entry_price |-> e, shares |-> LotSize], IF p < e THEN 2 ELSE 5, p) :
        e \in {10, 12}, p \in {9, 12}}


no_twin == [on |-> FALSE, portfolio |-> None, pending |-> <<>>, nav_history |-> <<>>,
            permuted |-> FALSE]
no_call == [op |-> "none", code |-> "", price |-> 0, date |-> 0, amount |-> 0]

\* one pass of the loop body, (a) to (d), on the state of a run
run_day(run, d, price_lookup, todays, strategy) ==
    LET sold_out == check_exits(run.portfolio, d, price_lookup, strategy)
        waited == advance(run.pending)
        entries == entries_of(waited, price_lookup)
        kept == drop_expired(waited, price_lookup, strategy)
        entered == IF entries # <<>>
                   THEN buy_entries(sold_out, entries, d, per_stock(sold_out, entries))
                   ELSE sold_out
        admitted == admit(pop_entries(kept, entries), entered, todays, d)
        nav == get_nav(entered, market_prices_of(entered, price_lookup))
    IN  [run EXCEPT !.portfolio = entered,
                    !.pending = admitted,
                    !.nav_history = Append(@, <<d, nav>>)]

\* ---------------------------------------------------------------- initial states
InitCommon ==
    /\ pending = <<>>
    /\ nav_history = <<>>
    /\ entries_today = <<>>
    /\ day = 0
    /\ date = 0
    /\ bar = no_bars
    /\ signals = {}
    /\ signalled = FALSE
    /\ before_close = <<>>
    /\ today = no_day
    /\ fp = no_float
    /\ call = no_call
    /\ prev = portfolio
    /\ ret = "None"
    /\ ops = 0
    /\ bought = 0
    /\ sold = 0

\* BacktestEngine.__init__ and the start of run
Init ==
    /\ pc = "loop"
    /\ \E w \in 0..MaxWindow, r \in ExitRules :
          cfg = EntryExitStrategy(w, DefaultTakeProfit, r[1], r[2])
    /\ stock_order \in Orders
    /\ zero_close = FALSE
    /\ twin = no_twin
    /\ \E c \in RunCapitals : portfolio = Portfolio(c)
    /\ InitCommon

\* the start of two runs on the same data, the second with permuted signal lists
InitPair ==
    /\ pc = "loop"
    /\ \E w \in 0..MaxWindow, r \in ExitRules :
          cfg = EntryExitStrategy(w, DefaultTakeProfit, r[1], r[2])
    /\ stock_order \in Orders
    /\ zero_close = FALSE
    /\ \E c \in RunCapitals : portfolio = Portfolio(c)
    /\ twin = [no_twin EXCEPT !.on = TRUE, !.portfolio = portfolio]
    /\ InitCommon

\* the start of run on price data that may hold a close of 0
InitRaw ==
    /\ pc = "loop"
    /\ \E w \in 0..MaxWindow, r \in ExitRules :
          cfg = EntryExitStrategy(w, DefaultTakeProfit, r[1], r[2])
    /\ stock_order \in Orders
    /\ zero_close = TRUE
    /\ twin = no_twin
    /\ \E c \in RunCapitals : portfolio = Portfolio(c)
    /\ InitCommon

\* Portfolio.__init__, for a caller that drives the portfolio itself
InitApi ==
    /\ pc = "api"
    /\ cfg = EntryExitStrategy(0, DefaultTakeProfit, 0, 0)
    /\ stock_order = <<>>
    /\ zero_close = FALSE
    /\ twin = no_twin
    /\ \E c \in Capitals : portfolio = Portfolio(c)
    /\ InitCommon

\* a date with one or two entrants and a cash balance, in floating point
InitFloat ==
    /\ pc = "float"
    /\ cfg = EntryExitStrategy(0, DefaultTakeProfit, 0, 0)
    /\ stock_order = <<>>
    /\ zero_close = FALSE
    /\ twin = no_twin
    /\ portfolio = Portfolio(0)
    /\ \E cash \in FloatCash, prices \in [{1} -> FloatPrices] \cup [{1, 2} -> FloatPrices] :
          fp = [no_float EXCEPT !.cash = cash, !.prices = prices]
    /\ pending = <<>>
    /\ nav_history = <<>>
    /\ entries_today = <<>>
    /\ day = 0
    /\ date = 0
    /\ bar = no_bars
    /\ signals = {}
    /\ signalled = FALSE
    /\ before_close = <<>>
    /\ today = no_day
    /\ call = no_call
    /\ prev = portfolio
    /\ ret = "None"
    /\ ops = 0
    /\ bought = 0
    /\ sold = 0

\* EntryExitStrategy.__init__, for a caller that asks the strategy itself
InitStrategy ==
    /\ pc = "strategy"
    /\ \E tp \in TakeProfits, sl \in StopLosses : cfg = EntryExitStrategy(0, tp, sl, 0)
    /\ stock_order = <<>>
    /\ zero_close = FALSE
    /\ twin = no_twin
    /\ portfolio = Portfolio(0)
    /\ InitCommon

\* a caller of calc_metrics with a NAV history and a list of trades
InitMetrics ==
    /\ pc = "metrics"
    /\ cfg = EntryExitStrategy(0, DefaultTakeProfit, 0, 0)
    /\ stock_order = <<>>
    /\ zero_close = FALSE
    /\ twin = no_twin
    /\ \E n \in 0..MaxTrades : \E trades \in [1..n -> MetricsTrades] :
          \E c \in MetricsCapitals :
             portfolio = [Portfolio(c) EXCEPT !.closed_trades = trades]
    /\ \E n \in 0..MaxNavs : \E navs \in [1..n -> NavValues] :
          nav_history = [i \in 1..n |-> <<i, navs[i]>>]
    /\ pending = <<>>
    /\ entries_today = <<>>
    /\ day = 0
    /\ date = 0
    /\ bar = no_bars
    /\ signals = {}
    /\ signalled = FALSE
    /\ before_close = <<>>
    /\ today = no_day
    /\ fp = no_float
    /\ call = no_call
    /\ prev = portfolio
    /\ ret = "None"
    /\ ops = 0
    /\ bought = 0
    /\ sold = 0

\* BaoStockFetcher.__init__: the login may have failed
InitFetch ==
    /\ pc = "fetch"
    /\ cfg = EntryExitStrategy(0, DefaultTakeProfit, 0, 0)
    /\ stock_order = <<>>
    /\ zero_close = FALSE
    /\ twin = no_twin
    /\ portfolio = Portfolio(0)
    /\ pending = <<>>
    /\ nav_history = <<>>
    /\ entries_today = <<>>
    /\ day = 0
    /\ date = 0
    /\ bar = no_bars
    /\ signals = {}
    /\ signalled = FALSE
    /\ before_close = <<>>
    /\ today = no_day
    /\ fp = no_float
    /\ \E code \in FetchCodes, logged_in \in BOOLEAN : call = no_fetch(code, logged_in)
    /\ prev = portfolio
    /\ ret = "None"
    /\ ops = 0
    /\ bought = 0
    /\ sold = 0

\* ---------------------------------------------------------------- run, one day
\* for date in all_dates: the next date with its bars and signals.  A date of
\* the calendar has a bar of some instrument, and a signal of a date belongs
\* to an instrument with a bar on it.  The first date is day 1.
BeginDay ==
    /\ pc = "loop"
    /\ day < MaxDays
    /\ \E gap \in (IF day = 0 THEN {1} ELSE 1..MaxGap), b \in [Codes -> Bars \cup (IF zero_close THEN ZeroBars ELSE {}) \cup {NoBar}],
          s \in SUBSET Codes :
          /\ \E c \in Codes : b[c] # NoBar
          /\ \A c \in s : b[c] # NoBar
          /\ date' = date + gap
          /\ bar' = b
          /\ signals' = s
          /\ signalled' = (signalled \/ s # {})
    /\ day' = day + 1
    /\ today' = [no_day EXCEPT !.portfolio = portfolio, !.pending = pending]
    /\ pc' = "exits"
    /\ UNCHANGED <<portfolio, pending, nav_history, entries_today, cfg, stock_order, zero_close, before_close, twin>>
    /\ UNCHANGED api_vars

\* (a) Check exits
CheckExits ==
    /\ pc = "exits"
    /\ portfolio' = check_exits(portfolio, date, bar, cfg)
    /\ pc' = "pending"
    /\ UNCHANGED engine_vars
    /\ UNCHANGED api_vars

\* (b) Check entries from pending queue: advance, collect, expire
AdvancePending ==
    /\ pc = "pending"
    /\ entries_today' = entries_of(advance(pending), bar)
    /\ pending' = drop_expired(advance(pending), bar, cfg)
    /\ pc' = "entries"
    /\ UNCHANGED <<portfolio, nav_history, cfg, stock_order, zero_close, day, date, bar, signals, signalled,
                   before_close, twin, today>>
    /\ UNCHANGED api_vars

\* (b) the buys of the day; the exception of a buy at price 0 leaves run
ExecuteEntries ==
    /\ pc = "entries"
    /\ IF entries_today # <<>>
       THEN LET k == raises_at(entries_today)
                popped == IF k = 0 THEN entries_today ELSE SubSeq(entries_today, 1, k)
                called == IF k = 0 THEN entries_today ELSE SubSeq(entries_today, 1, k - 1)
            IN  /\ pending' = pop_entries(pending, popped)
                /\ portfolio' = buy_entries(portfolio, called, date,
                                            per_stock(portfolio, entries_today))
                /\ today' = [today EXCEPT !.entries = entries_today,
                                          !.per_stock = per_stock(portfolio, entries_today)]
                /\ pc' = IF k = 0 THEN "signals" ELSE "aborted"
       ELSE UNCHANGED <<pending, portfolio, today>> /\ pc' = "signals"
    /\ entries_today' = <<>>
    /\ UNCHANGED <<nav_history, cfg, stock_order, zero_close, day, date, bar, signals, signalled, before_close, twin>>
    /\ UNCHANGED api_vars

\* (c) New signals enter pending queue
NewSignals ==
    /\ pc = "signals"
    /\ pending' = admit(pending, portfolio, signal_list(stock_order, signals), date)
    /\ pc' = "nav"
    /\ UNCHANGED <<portfolio, nav_history, entries_today, cfg, stock_order, zero_close,
                   day, date, bar, signals, signalled, before_close, twin, today>>
    /\ UNCHANGED api_vars

\* (d) Record NAV; the loop then ends (date was all_dates[-1]) or takes the next date
RecordNav ==
    /\ pc = "nav"
    /\ nav_history' = Append(nav_history,
                             <<date, get_nav(portfolio, market_prices_of(portfolio, bar))>>)
    /\ \/ pc' = "close" /\ UNCHANGED <<bar, signals, today>>
       \/ day < MaxDays /\ pc' = "loop" /\ bar' = no_bars /\ signals' = {} /\ today' = no_day
    /\ IF twin.on
       THEN \E order \in Orders :
               twin' = [run_day(twin, date, bar, signal_list(order, signals), cfg)
                           EXCEPT !.permuted = twin.permuted
                                      \/ signal_list(order, signals)
                                            # signal_list(stock_order, signals)]
       ELSE UNCHANGED twin
    /\ UNCHANGED <<portfolio, pending, entries_today, cfg, stock_order, zero_close, day, date, signalled,
                   before_close>>
    /\ UNCHANGED api_vars

\* Force close remaining positions (all_dates is empty when no day was taken)
ForceClose ==
    /\ pc = "close" \/ (pc = "loop" /\ day = 0)
    /\ portfolio' = IF day > 0
                    THEN force_close(portfolio, portfolio.positions, date, bar)
                    ELSE portfolio
    /\ before_close' = portfolio.positions
    /\ twin' = IF day > 0 /\ twin.on
               THEN [twin EXCEPT !.portfolio = force_close(@, @.positions, date, bar)]
               ELSE twin
    /\ pc' = "done"
    /\ UNCHANGED <<run_vars, today>>
    /\ UNCHANGED api_vars

\* ---------------------------------------------------------------- direct calls
CallBuy ==
    /\ pc = "api"
    /\ ops < MaxOps
    /\ \E code \in Codes, price \in Prices, d \in CallDates, amount \in Amounts :
          LET after == buy(portfolio, code, stock_names(code), price, d,
                           [num |-> amount, den |-> 1])
          IN  /\ portfolio' = after
              /\ call' = [op |-> "buy", code |-> code, price |-> price,
                          date |-> d, amount |-> amount]
              /\ bought' = bought +
                    (IF has_position(after, code) /\ ~has_position(portfolio, code)
                     THEN dict_get(after.positions, code).shares * price ELSE 0)
    /\ prev' = portfolio
    /\ ret' = "None"
    /\ ops' = ops + 1
    /\ UNCHANGED <<pc, sold, fp>>
    /\ UNCHANGED engine_vars

CallSell ==
    /\ pc = "api"
    /\ ops < MaxOps
    /\ \E code \in Codes, price \in Prices, d \in CallDates :
          LET after == sell(portfolio, code, price, d)
          IN  /\ portfolio' = after
              /\ call' = [op |-> "sell", code |-> code, price |-> price,
                          date |-> d, amount |-> 0]
              /\ sold' = sold +
                    (IF Len(after.closed_trades) > Len(portfolio.closed_trades)
                     THEN after.closed_trades[Len(after.closed_trades)].shares * price
                     ELSE 0)
    /\ prev' = portfolio
    /\ ret' = "None"
    /\ ops' = ops + 1
    /\ UNCHANGED <<pc, bought, fp>>
    /\ UNCHANGED engine_vars

CallGetNav ==
    /\ pc = "api"
    /\ ops < MaxOps
    /\ \E held \in SUBSET Codes, price \in Prices :
          /\ ret' = get_nav(portfolio, [c \in held |-> price])
          /\ call' = [op |-> "get_nav", code |-> "", price |-> price,
                      date |-> 0, amount |-> 0]
    /\ prev' = portfolio
    /\ ops' = ops + 1
    /\ UNCHANGED <<pc, portfolio, bought, sold, fp>>
    /\ UNCHANGED engine_vars

CallHasPosition ==
    /\ pc = "api"
    /\ ops < MaxOps
    /\ \E code \in Codes :
          /\ ret' = has_position(portfolio, code)
          /\ call' = [op |-> "has_position", code |-> code, price |-> 0,
                      date |-> 0, amount |-> 0]
    /\ prev' = portfolio
    /\ ops' = ops + 1
    /\ UNCHANGED <<pc, portfolio, bought, sold, fp>>
    /\ UNCHANGED engine_vars

\* (b) the buys of a date, in floating point, for the entrants in the order of
\* the pending dict and in the opposite order
FloatEntries ==
    /\ pc = "float"
    /\ fp' = [fp EXCEPT !.per_stock = float_per_stock(fp.cash, fp.prices),
                        !.buys = float_buy_entries(fp.cash, fp.prices,
                                                   float_per_stock(fp.cash, fp.prices)),
                        !.swapped = float_buy_entries(fp.cash, reversed(fp.prices),
                                                      float_per_stock(fp.cash, fp.prices))]
    /\ pc' = "float_done"
    /\ UNCHANGED <<portfolio, call, prev, ret, ops, bought, sold>>
    /\ UNCHANGED engine_vars

\* a direct call of EntryExitStrategy.should_exit
CallShouldExit ==
    /\ pc = "strategy"
    /\ \E close \in ExitCloses, entry_price \in ExitEntries :
          /\ ret' = should_exit(cfg, close, entry_price)
          /\ call' = [op |-> "should_exit", close |-> close, entry_price |-> entry_price]
    /\ UNCHANGED <<pc, portfolio, prev, ops, bought, sold, fp>>
    /\ UNCHANGED engine_vars

\* a direct call of calc_metrics
CallCalcMetrics ==
    /\ pc = "metrics"
    /\ pc' = "metrics_done"
    /\ ret' = calc_metrics(portfolio.closed_trades, nav_history, portfolio.initial_capital)
    /\ call' = [no_call EXCEPT !.op = "calc_metrics"]
    /\ UNCHANGED <<portfolio, prev, ops, bought, sold, fp>>
    /\ UNCHANGED engine_vars

\* get_stock_history up to its loop: _ensure_login, whose login may fail, and
\* the code of the query
CallGetStockHistory ==
    /\ pc = "fetch"
    /\ pc' = "fetching"
    /\ \E ok \in BOOLEAN :
          call' = [call EXCEPT !.logged_in = @ \/ ok, !.bs_code = bs_code_of(call.code)]
    /\ UNCHANGED <<portfolio, prev, ret, ops, bought, sold, fp>>
    /\ UNCHANGED engine_vars

\* one pass of "for attempt in range(self.MAX_RETRIES)": the query, then a
\* return, or the except clause and the next pass, or the end of the loop
FetchAttempt ==
    /\ pc = "fetching"
    /\ call.attempt < MAX_RETRIES
    /\ \E outcome \in Outcomes, n \in 1..MaxRows :
          LET queried == [call EXCEPT !.outcomes = Append(@, outcome),
                                      !.log = Append(@, "query")]
          IN  IF outcome = "rows"
              THEN /\ call' = [queried EXCEPT !.log = Append(@, "REQUEST_INTERVAL")]
                   /\ ret' = frame(call.code, n)
                   /\ pc' = "fetched"
              ELSE IF ~raises(outcome)
              THEN /\ call' = queried
                   /\ ret' = <<>>
                   /\ pc' = "fetched"
              ELSE IF retries_left(call.attempt)
              THEN /\ call' = [queried EXCEPT !.log = Append(@, "RETRY_WAIT"),
                                              !.attempt = @ + 1]
                   /\ ret' = IF call.attempt + 1 < MAX_RETRIES THEN ret ELSE <<>>
                   /\ pc' = IF call.attempt + 1 < MAX_RETRIES THEN "fetching" ELSE "fetched"
              ELSE /\ call' = queried
                   /\ ret' = <<>>
                   /\ pc' = "fetched"
    /\ UNCHANGED <<portfolio, prev, ops, bought, sold, fp>>
    /\ UNCHANGED engine_vars

NextFetch ==
    \/ CallGetStockHistory
    \/ FetchAttempt

Next ==
    \/ BeginDay
    \/ CheckExits
    \/ AdvancePending
    \/ ExecuteEntries
    \/ NewSignals
    \/ RecordNav
    \/ ForceClose

NextApi ==
    \/ CallBuy
    \/ CallSell
    \/ CallGetNav
    \/ CallHasPosition

InitAny == Init \/ InitApi

NextAny == Next \/ NextApi

\* one run of the engine
Spec == Init /\ [][Next]_vars

\* two runs of the engine on the same data, the second with permuted signal lists
PairSpec == InitPair /\ [][Next]_vars

\* one run of the engine on price data that may hold a close of 0
RawSpec == InitRaw /\ [][Next]_vars

\* any sequence of calls of a Portfolio
ApiSpec == InitApi /\ [][NextApi]_vars

\* any sequence of calls of should_exit
StrategySpec == InitStrategy /\ [][CallShouldExit]_vars

\* one call of get_stock_history
FetchSpec == InitFetch /\ [][NextFetch]_vars

\* one call of calc_metrics
MetricsSpec == InitMetrics /\ [][CallCalcMetrics]_vars

\* the buys of one date in floating point
FloatSpec == InitFloat /\ [][FloatEntries]_vars

\* either of the two
AnySpec == InitAny /\ [][NextAny]_vars

\* ---------------------------------------------------------------- properties
count(d, code) == Cardinality({i \in DOMAIN d : d[i].code = code})

call_amount == [num |-> call.amount, den |-> 1]

\* the last direct call was a buy that created a position
buy_succeeded ==
    /\ call.op = "buy"
    /\ ~has_position(prev, call.code)
    /\ has_position(portfolio, call.code)

\* the trades appended since the current date began
trades_today ==
    SubSeq(portfolio.closed_trades, Len(today.portfolio.closed_trades) + 1,
           Len(portfolio.closed_trades))

RECURSIVE proceeds(_)
proceeds(trades) ==
    IF trades = <<>> THEN 0
    ELSE Head(trades).shares * Head(trades).exit_price + proceeds(Tail(trades))

\* the positions opened on the current date
RECURSIVE cost_of_entries(_, _)
cost_of_entries(positions, d) ==
    IF positions = <<>> THEN 0
    ELSE (IF Head(positions).entry_date = d
          THEN Head(positions).shares * Head(positions).entry_price ELSE 0)
         + cost_of_entries(Tail(positions), d)

\* the buys of the current date have been made and the loop has not ended
after_entries == pc \in {"signals", "nav", "close"}

\* C1: the cash balance is never negative, in any state reached by calls of
\* buy and sell with positive prices from a non-negative initial capital, and
\* in any state reached by run.
C1_CashNeverNegative == portfolio.cash >= 0

\* a buy has spent the cash to the last unit
C1_Witness ==
    /\ buy_succeeded
    /\ prev.cash > 0
    /\ portfolio.cash = 0

\* C2: after every sub-step of every day of run, each instrument has at most
\* one Position, at most one PendingSignal, and not both.
C2_OnePlacePerInstrument ==
    \A code \in Codes :
        /\ count(portfolio.positions, code) <= 1
        /\ count(pending, code) <= 1
        /\ ~(has_position(portfolio, code) /\ has_key(pending, code))

\* a signal of the day was refused for the open position of its instrument,
\* while another instrument is pending
C2_Witness ==
    /\ pc = "nav"
    /\ \E code \in signals : has_position(portfolio, code)
    /\ pending # <<>>

\* C3: over any sequence of direct calls, cash = initial cash - sum of
\* shares x price of the buys that created a position + sum of shares x price
\* of the sells that appended a trade; get_nav, has_position, a buy that
\* creates no position and a sell that appends no trade leave cash alone.
C3_CashConservation ==
    /\ portfolio.cash = portfolio.initial_capital - bought + sold
    /\ call.op \in {"get_nav", "has_position"} => portfolio.cash = prev.cash
    /\ call.op = "buy" /\ portfolio.positions = prev.positions
          => portfolio.cash = prev.cash
    /\ call.op = "sell" /\ portfolio.closed_trades = prev.closed_trades
          => portfolio.cash = prev.cash

\* a buy and a sell at another price have both gone through
C3_Witness ==
    /\ bought > 0
    /\ sold > 0
    /\ sold # bought

\* C4: a pending signal that found no entry candle on any of the entry_window
\* days after its signal day never becomes a position: with a window of at
\* least one day, no position is created for a signal whose days_waited
\* exceeds entry_window.
C4_NoEntryAfterWindow ==
    [][pc = "entries" /\ cfg.entry_window >= 1 =>
          \A i \in DOMAIN pending :
              pending[i].days_waited > cfg.entry_window
                  => ~has_position(portfolio', pending[i].code)]_vars

\* C5: when run is over, every position that was open when the loop ended
\* and whose instrument has a bar on the last trading date is no longer open
\* and has exactly one Trade, with exit date = that date and exit price = its
\* close; every other position that was open then is still open, unchanged,
\* and has no Trade of that date.
C5_ForcedLiquidation ==
    pc = "done" =>
        \A i \in DOMAIN before_close :
            LET pos == before_close[i]
                closed == portfolio.closed_trades
            IN  IF has_bar(bar, pos.code)
                THEN /\ ~has_position(portfolio, pos.code)
                     /\ Cardinality({k \in DOMAIN closed : closed[k]
                            = [code |-> pos.code, name |-> pos.name,
                               entry_date |-> pos.entry_date,
                               entry_price |-> pos.entry_price,
                               exit_date |-> date, exit_price |-> bar[pos.code].close,
                               shares |-> pos.shares]}) = 1
                ELSE /\ \E j \in DOMAIN portfolio.positions : portfolio.positions[j] = pos
                     /\ \A k \in DOMAIN closed :
                            ~(closed[k].code = pos.code /\ closed[k].exit_date = date)

\* the run is over: a position entered on the last date was liquidated, and
\* a position with no bar on that date is still open
C5_Witness ==
    /\ pc = "done"
    /\ Len(before_close) = 2
    /\ \E k \in DOMAIN portfolio.closed_trades :
          /\ portfolio.closed_trades[k].entry_date = date
          /\ portfolio.closed_trades[k].exit_date = date
    /\ \E i \in DOMAIN portfolio.positions : ~has_bar(bar, portfolio.positions[i].code)

\* C6: as long as no date has a signal, run creates no pending signal, no
\* position and no trade, every recorded NAV is the initial capital, and
\* final_nav is the initial capital.
C6_NoSignalNoTrade ==
    ~signalled =>
        /\ pending = <<>>
        /\ entries_today = <<>>
        /\ portfolio.positions = <<>>
        /\ portfolio.closed_trades = <<>>
        /\ \A i \in DOMAIN nav_history : nav_history[i][2] = portfolio.initial_capital
        /\ final_nav = portfolio.initial_capital

\* a run of several dates without a signal is over
C6_Witness ==
    /\ pc = "done"
    /\ ~signalled
    /\ Len(nav_history) >= 2

\* C7: a buy for an instrument with an open position changes nothing.
C7_DuplicateBuyNoOp ==
    call.op = "buy" /\ has_position(prev, call.code) => portfolio = prev

\* a second buy at another price and date, which the cash would cover
C7_Witness ==
    /\ call.op = "buy"
    /\ has_position(prev, call.code)
    /\ dict_get(prev.positions, call.code).entry_price # call.price
    /\ dict_get(prev.positions, call.code).entry_date # call.date
    /\ buy_shares(call_amount, call.price) > 0
    /\ buy_shares(call_amount, call.price) * call.price <= prev.cash

C9_RejectedBuyNoOp ==
    call.op = "buy"
    /\ (\/ buy_shares(call_amount, call.price) <= 0
        \/ buy_shares(call_amount, call.price) * call.price > prev.cash)
    => portfolio = prev

\* a buy with cash at hand, for an instrument not held, that rounds to zero shares
C9_Witness ==
    /\ call.op = "buy"
    /\ ~has_position(prev, call.code)
    /\ call.amount > 0
    /\ prev.cash >= call.amount
    /\ buy_shares(call_amount, call.price) = 0

\* C10: a sell for an instrument with no open position changes nothing.
C10_SellWithoutPositionNoOp ==
    call.op = "sell" /\ ~has_position(prev, call.code) => portfolio = prev

\* the instrument sold last is sold again
C10_Witness ==
    /\ call.op = "sell"
    /\ ~has_position(prev, call.code)
    /\ prev.closed_trades # <<>>
    /\ prev.closed_trades[Len(prev.closed_trades)].code = call.code
    /\ Len(portfolio.closed_trades) = 1

C12_ExitsBeforeAllocation ==
    after_entries /\ today.entries # <<>> =>
        /\ today.per_stock.num = today.portfolio.cash + proceeds(trades_today)
        /\ today.per_stock.den = Len(today.entries)
        /\ \A i \in DOMAIN trades_today : trades_today[i].exit_date = date

\* an entrant is bought, on a date with an exit, for more than the cash the
\* date began with
C12_Witness ==
    /\ pc = "nav"
    /\ today.entries # <<>>
    /\ trades_today # <<>>
    /\ cost_of_entries(portfolio.positions, date) > today.portfolio.cash

\* C13: a position opened on a date comes from a signal that was pending when
\* the date began, admitted on an earlier date; a signal admitted on a date is
\* still pending, with days_waited = 0 and no position, when the NAV of that
\* date is recorded.
C13_NoSameDayEntry ==
    after_entries =>
        /\ \A i \in DOMAIN portfolio.positions :
              LET pos == portfolio.positions[i]
              IN  pos.entry_date = date =>
                     /\ has_key(today.pending, pos.code)
                     /\ dict_get(today.pending, pos.code).signal_date < pos.entry_date
        /\ \A i \in DOMAIN pending :
              pending[i].signal_date = date =>
                 /\ pc # "signals"
                 /\ pending[i].days_waited = 0
                 /\ ~has_position(portfolio, pending[i].code)

\* a signal is admitted on a date on which its instrument has a bearish bar,
\* and another instrument is bought on that date
C13_Witness ==
    /\ pc = "nav"
    /\ \E i \in DOMAIN pending :
          /\ pending[i].signal_date = date
          /\ enters(pending[i], bar)
    /\ \E i \in DOMAIN portfolio.positions : portfolio.positions[i].entry_date = date

\* C14: the N entrants of a date are each handed the same per_stock, the cash
\* before the first buy divided by N; the buys together cost no more than
\* that cash, and no buy returns because its cost exceeds the cash.
C14_EqualAllocation ==
    pc = "float_done" =>
        /\ fp.per_stock = float_div(fp.cash, to_float(Len(fp.prices)))
        /\ \A i \in DOMAIN fp.buys :
              /\ fp.buys[i].cash >= 0
              /\ fp.buys[i].returned # "cost > cash"

\* what an open position counts for on the current date
marked(pos) ==
    IF has_bar(bar, pos.code) THEN pos.shares * bar[pos.code].close
    ELSE pos.shares * pos.entry_price

RECURSIVE marked_value(_)
marked_value(positions) ==
    IF positions = <<>> THEN 0
    ELSE marked(Head(positions)) + marked_value(Tail(positions))

\* C15: the NAV recorded for a date is the cash plus, for every open
\* position, shares x the close of that date if the instrument has a bar on
\* it and shares x the entry price if it has none; with no open position it
\* is the cash.
C15_RecordedNav ==
    pc = "close" =>
        LET last == nav_history[Len(nav_history)]
        IN  /\ last[1] = date
            /\ last[2] = portfolio.cash + marked_value(portfolio.positions)
            /\ portfolio.positions = <<>> => last[2] = portfolio.cash

\* two open positions, one with a bar away from its entry price and one
\* without a bar
C15_Witness ==
    /\ pc = "close"
    /\ \E i, j \in DOMAIN portfolio.positions :
          /\ has_bar(bar, portfolio.positions[i].code)
          /\ bar[portfolio.positions[i].code].close # portfolio.positions[i].entry_price
          /\ ~has_bar(bar, portfolio.positions[j].code)

\* a signal that was pending when the current date began, seen after the
\* buys of the date: it is gone, it is a position of this date, it waited
\* longer than the window without an entry candle, it was among the entrants
gone(sig) ==
    ~\E i \in DOMAIN pending :
        pending[i].code = sig.code /\ pending[i].signal_date = sig.signal_date

converted(sig) ==
    /\ has_position(portfolio, sig.code)
    /\ dict_get(portfolio.positions, sig.code).entry_date = date

expired(sig) ==
    ~enters(sig, bar) /\ sig.days_waited + 1 > cfg.entry_window

entrant(sig) ==
    \E i \in DOMAIN today.entries : today.entries[i].code = sig.code

\* C16: a pending signal that leaves the pending dict on a date has become an
\* open position on that date, or has expired because its days_waited
\* exceeded the entry window.
C16_ConvertedOrExpired ==
    after_entries =>
        \A i \in DOMAIN today.pending :
            LET sig == today.pending[i]
            IN  gone(sig) => converted(sig) \/ expired(sig)

\* C16, amended: a pending signal leaves the pending dict on a date exactly
\* when its instrument has an entry candle on that date or it expires; the
\* signal with the entry candle is handed to buy, and it becomes a position
\* of that date exactly when its allocation buys at least one lot.
C16_EnteredOrExpired ==
    after_entries =>
        \A i \in DOMAIN today.pending :
            LET sig == today.pending[i]
            IN  /\ gone(sig) <=> (enters(sig, bar) \/ expired(sig))
                /\ entrant(sig) <=> enters(sig, bar)
                /\ entrant(sig) =>
                      (converted(sig)
                          <=> buy_shares(today.per_stock, bar[sig.code].close) > 0)
                /\ ~entrant(sig) => ~has_position(portfolio, sig.code)

\* a signal within its window leaves on its entry candle without a position
C16_Witness ==
    /\ pc = "nav"
    /\ \E i \in DOMAIN today.pending :
          LET sig == today.pending[i]
          IN  /\ gone(sig)
              /\ entrant(sig)
              /\ sig.days_waited + 1 <= cfg.entry_window
              /\ ~has_position(portfolio, sig.code)

\* C17: after the admission of new signals, an instrument signalled on the
\* current date that already had a pending signal has that one PendingSignal
\* still, with its signal date and with the days_waited the advancement of
\* the date left it (the window is not restarted); an instrument signalled
\* while it has an open position has no pending signal.
C17_RepeatedSignalNoOp ==
    pc \in {"nav", "close"} =>
        \A code \in signals :
            /\ count(pending, code) <= 1
            /\ has_position(portfolio, code) => ~has_key(pending, code)
            /\ \A i \in DOMAIN today.pending :
                  LET sig == today.pending[i]
                  IN  sig.code = code /\ ~enters(sig, bar) /\ ~expired(sig) =>
                         /\ has_key(pending, code)
                         /\ dict_get(pending, code)
                               = [sig EXCEPT !.days_waited = sig.days_waited + 1]

\* a date brings a signal for an instrument that is waiting and a signal for
\* an instrument that is held
C17_Witness ==
    /\ pc = "nav"
    /\ \E code \in signals :
          /\ has_key(today.pending, code)
          /\ has_key(pending, code)
          /\ dict_get(pending, code).signal_date < date
          /\ dict_get(pending, code).days_waited >= 1
    /\ \E code \in signals : has_position(portfolio, code)

\* the exits of the current date have been made and the loop has not ended
after_exits == pc \in {"pending", "entries", "signals", "nav", "close"}

\* C18: a position that is open when a date begins and whose instrument has
\* no bar on that date is left as it is by the processing of the date: it
\* stays open with its entry date, entry price and share count, and no trade
\* is recorded (no cash credited) for it, however long it has been held.
C18_NoBarNoExit ==
    after_exits =>
        \A i \in DOMAIN today.portfolio.positions :
            LET pos == today.portfolio.positions[i]
            IN  ~has_bar(bar, pos.code) =>
                   /\ has_position(portfolio, pos.code)
                   /\ dict_get(portfolio.positions, pos.code) = pos
                   /\ \A k \in DOMAIN trades_today : trades_today[k].code # pos.code
                   /\ portfolio.cash + cost_of_entries(portfolio.positions, date)
                         = today.portfolio.cash + proceeds(trades_today)

\* a position held for max_hold_days has no bar, on a date on which another
\* position is sold
C18_Witness ==
    /\ pc = "nav"
    /\ cfg.max_hold_days > 0
    /\ trades_today # <<>>
    /\ \E i \in DOMAIN today.portfolio.positions :
          LET pos == today.portfolio.positions[i]
          IN  /\ ~has_bar(bar, pos.code)
              /\ hold_days(date, pos.entry_date) >= cfg.max_hold_days

\* the trades of the current date that closed a position
sales_of(pos) == {k \in DOMAIN trades_today : trades_today[k].code = pos.code}

\* the exit rule of the claim for a position whose instrument has a bar
exit_due(pos) ==
    \/ should_exit(cfg, bar[pos.code].close, pos.entry_price)
    \/ cfg.max_hold_days > 0 /\ date - pos.entry_date >= cfg.max_hold_days

\* C19: a position open when a date begins, whose instrument has a bar on that
\* date, is sold in the exit evaluation of that date, at that date's close, if
\* and only if should_exit(close, entry_price) holds or max_hold_days > 0 and
\* the calendar days since the entry date are >= max_hold_days; it is sold
\* at most once, and with max_hold_days = 0 the holding time sells nothing.
C19_ExitRule ==
    after_exits =>
        \A i \in DOMAIN today.portfolio.positions :
            LET pos == today.portfolio.positions[i]
            IN  has_bar(bar, pos.code) =>
                   /\ exit_due(pos) <=> sales_of(pos) # {}
                   /\ Cardinality(sales_of(pos)) <= 1
                   /\ \A k \in sales_of(pos) :
                         trades_today[k] = Trade(pos, date, bar[pos.code].close)
                   /\ exit_due(pos) => ~has_position(portfolio, pos.code)
                   /\ ~exit_due(pos) => dict_get(portfolio.positions, pos.code) = pos

\* a position is sold on the date its holding time reaches max_hold_days, at
\* a close that also takes its profit
C19_Witness ==
    /\ pc = "nav"
    /\ \E i \in DOMAIN today.portfolio.positions :
          LET pos == today.portfolio.positions[i]
          IN  /\ has_bar(bar, pos.code)
              /\ should_exit(cfg, bar[pos.code].close, pos.entry_price)
              /\ cfg.max_hold_days > 0
              /\ date - pos.entry_date = cfg.max_hold_days
              /\ Cardinality(sales_of(pos)) = 1

\* C20: should_exit(close, entry_price) is true exactly when entry_price > 0
\* and the return (close - entry_price) / entry_price x 100 is >=
\* take_profit_pct, or stop_loss_pct > 0 and the return is <= -stop_loss_pct;
\* with stop_loss_pct = 0 no loss triggers an exit, and entry_price <= 0
\* never does.
C20_ShouldExit ==
    call.op = "should_exit" =>
        LET entry == call.entry_price
            \* the return in percent, times entry
            return_by_entry == (call.close - entry) * 100
            profit == return_by_entry >= cfg.take_profit_pct * entry
            loss == return_by_entry <= (0 - cfg.stop_loss_pct) * entry
        IN  /\ ret = (entry > 0 /\ (profit \/ (cfg.stop_loss_pct > 0 /\ loss)))
            /\ entry <= 0 => ret = FALSE
            /\ cfg.stop_loss_pct = 0 /\ call.close < entry => ret = FALSE

\* a return of exactly take_profit_pct
C20_Witness ==
    /\ call.op = "should_exit"
    /\ call.entry_price > 0
    /\ (call.close - call.entry_price) * 100 = cfg.take_profit_pct * call.entry_price
    /\ ret = TRUE

\* C21: a position opened on a date belongs to an instrument that was pending
\* when the date began and that has, on that date, a bar with close strictly
\* below open; its entry date is that date and its entry price that close.
\* An instrument that was not pending holds, at most, the position it held
\* when the date began.
C21_EntryOnlyFromPending ==
    after_entries =>
        \A i \in DOMAIN portfolio.positions :
            LET pos == portfolio.positions[i]
            IN  /\ pos.entry_date <= date
                /\ pos.entry_date = date =>
                      /\ has_key(today.pending, pos.code)
                      /\ has_bar(bar, pos.code)
                      /\ bar[pos.code].close < bar[pos.code].open
                      /\ pos.entry_price = bar[pos.code].close
                /\ ~has_key(today.pending, pos.code) =>
                      /\ has_position(today.portfolio, pos.code)
                      /\ dict_get(today.portfolio.positions, pos.code) = pos

\* one pending instrument is bought on its bearish candle while another, with
\* close = open, is not
C21_Witness ==
    /\ pc = "nav"
    /\ \E i \in DOMAIN portfolio.positions : portfolio.positions[i].entry_date = date
    /\ \E i \in DOMAIN today.pending :
          LET sig == today.pending[i]
          IN  /\ has_bar(bar, sig.code)
              /\ bar[sig.code].close = bar[sig.code].open
              /\ ~has_position(portfolio, sig.code)

\* C22: run never aborts, whatever the price data: every trading date taken
\* from the calendar is processed once, in strictly ascending order, and the
\* NAV history holds exactly one entry for each date processed.
C22_RunCompletes ==
    /\ pc # "aborted"
    /\ pc \in {"loop", "close", "done"} => Len(nav_history) = day
    /\ pc \in {"exits", "pending", "entries", "signals", "nav"} => Len(nav_history) = day - 1
    /\ \A i, j \in DOMAIN nav_history : i < j => nav_history[i][1] < nav_history[j][1]
    /\ \A i \in DOMAIN nav_history : nav_history[i][1] <= date

\* the elements of a list
as_set(list) == {list[i] : i \in DOMAIN list}

\* C23, in exact arithmetic: a run whose signal lists are permuted, on some or all dates, ends
\* every date with the same cash, the same set of open positions, the same
\* NAV history and the same set of closed trades as the run on the same data
\* with the lists as they are; a run with no list permuted is the same run.
C23_SignalOrderIrrelevant ==
    pc \in {"loop", "close", "done"} =>
        /\ twin.portfolio.cash = portfolio.cash
        /\ as_set(twin.portfolio.positions) = as_set(portfolio.positions)
        /\ twin.nav_history = nav_history
        /\ as_set(twin.portfolio.closed_trades) = as_set(portfolio.closed_trades)
        /\ Len(twin.portfolio.closed_trades) = Len(portfolio.closed_trades)
        /\ ~twin.permuted =>
              /\ twin.portfolio = portfolio
              /\ twin.pending = pending

\* the two runs have closed the same two trades in a different order
C23_Witness ==
    /\ pc = "done"
    /\ twin.permuted
    /\ Len(portfolio.closed_trades) = 2
    /\ twin.portfolio.closed_trades # portfolio.closed_trades

\* C23: the entrants of a date, which are bought in the order of the signal
\* list that admitted them, end with the same positions and the same cash
\* when that order is reversed.
C23_SameBuysInAnyOrder ==
    pc = "float_done" =>
        /\ \A i \in DOMAIN fp.buys :
              fp.buys[i].shares = fp.swapped[Len(fp.buys) + 1 - i].shares
        /\ fp.buys[Len(fp.buys)].cash = fp.swapped[Len(fp.buys)].cash

\* the NAV of the i-th entry of nav_history, the running peak there (the
\* greatest of the initial capital and the NAVs up to it) and the drawdown there
nav_at(i) == nav_history[i][2]

peak_at(i) ==
    CHOOSE p \in {portfolio.initial_capital} \cup {nav_at(j) : j \in 1..i} :
        \A j \in 1..i : p >= nav_at(j) /\ p >= portfolio.initial_capital

drawdown_at(i) == quotient((peak_at(i) - nav_at(i)) * 100, peak_at(i))

\* the greatest drawdown of the series reaches the value x
greatest_drawdown_is(x) ==
    /\ \E i \in DOMAIN nav_history : ~greater(x, drawdown_at(i))
    /\ \A i \in DOMAIN nav_history : ~greater(drawdown_at(i), x)

\* C24, as stated: the max drawdown that calc_metrics reports for a non-empty
\* NAV history is the maximum over the series of
\* (running peak - current) / running peak x 100.
C24_MaxDrawdownExact ==
    (pc = "metrics_done" /\ nav_history # <<>>)
        => greatest_drawdown_is(quotient(ret["max_drawdown_pct"], 100))

\* C24, amended: the reported max drawdown is that maximum rounded to two
\* decimals; it is 0 when no NAV falls below the running peak, and it is never
\* smaller than the max drawdown of a shorter prefix of the series, so a
\* recovery after a trough does not reduce it.
C24_MaxDrawdownRounded ==
    (pc = "metrics_done" /\ nav_history # <<>>) =>
        /\ \E i \in DOMAIN nav_history :
              /\ \A j \in DOMAIN nav_history : ~greater(drawdown_at(j), drawdown_at(i))
              /\ ret["max_drawdown_pct"] = round(drawdown_at(i), 2)
        /\ (\A i \in DOMAIN nav_history : nav_at(i) >= peak_at(i))
              => ret["max_drawdown_pct"] = 0
        /\ \A k \in DOMAIN nav_history :
              round(drawdown_at(k), 2) <= ret["max_drawdown_pct"]

\* the peak is raised above the capital, a trough follows, then a recovery
C24_Witness ==
    /\ pc = "metrics_done"
    /\ [i \in DOMAIN nav_history |-> nav_at(i)] = <<100, 110, 99, 105>>
    /\ ret["max_drawdown_pct"] = 1000

StatisticsKeys ==
    {"win_rate_pct", "profit_loss_ratio", "avg_holding_days", "max_win_pct", "max_loss_pct"}

\* C25: calc_metrics on an empty NAV history returns the empty mapping; on a
\* non-empty one it reports total_trades, the number of trades, and it reports
\* each trade statistic if and only if there is a trade.
C25_MetricsKeys ==
    pc = "metrics_done" =>
        IF nav_history = <<>> THEN DOMAIN ret = {}
        ELSE /\ "total_trades" \in DOMAIN ret
             /\ ret["total_trades"] = Len(portfolio.closed_trades)
             /\ \A k \in StatisticsKeys :
                   k \in DOMAIN ret <=> portfolio.closed_trades # <<>>

\* a call with two trades on a NAV history of one day: the count and every
\* trade statistic are reported
C25_Witness ==
    /\ pc = "metrics_done"
    /\ Len(nav_history) = 1
    /\ Len(portfolio.closed_trades) = 2
    /\ ret["total_trades"] = 2
    /\ StatisticsKeys \subseteq DOMAIN ret

\* the queries sent and the waits made so far, and the waits for a retry
queries == SelectSeq(call.log, LAMBDA e : e = "query")

retry_waits == {i \in DOMAIN call.log : call.log[i] = "RETRY_WAIT"}

\* C26: one call of get_stock_history sends at most MAX_RETRIES queries; every
\* query after the first follows an attempt that raised; the call returns at
\* the first attempt that does not raise, with its rows or an empty frame; it
\* waits RETRY_WAIT only right after a failed query and right before the next
\* one; and after MAX_RETRIES failures it returns an empty frame.
C26_BoundedRetries ==
    pc \in {"fetching", "fetched"} =>
        LET o == call.outcomes
            n == Len(o)
        IN  /\ Len(queries) = n
            /\ n <= MAX_RETRIES
            /\ \A i \in 1..(n - 1) : raises(o[i])
            /\ pc = "fetching" => n < MAX_RETRIES /\ \A i \in 1..n : raises(o[i])
            /\ pc = "fetched" =>
                  /\ n >= 1
                  /\ raises(o[n]) => n = MAX_RETRIES /\ ret = <<>>
                  /\ o[n] \in {"error_code", "no_rows"} => ret = <<>>
                  /\ o[n] = "rows" =>
                        /\ Len(ret) >= 1
                        /\ \A i \in DOMAIN ret : ret[i].code.market = ""
            /\ Cardinality(retry_waits) =
                  IF pc = "fetched" /\ raises(o[n]) THEN n - 1
                  ELSE Len(SelectSeq(o, raises))
            /\ \A i \in retry_waits :
                  /\ i > 1 /\ call.log[i - 1] = "query"
                  /\ pc = "fetched" => i < Len(call.log)
                  /\ i < Len(call.log) => call.log[i + 1] = "query"

\* two failures and then rows, and three failures
C26_Witness ==
    /\ pc = "fetched"
    /\ call.outcomes = <<"query_raises", "query_raises", "rows">>
    /\ call.log = <<"query", "RETRY_WAIT", "query", "RETRY_WAIT", "query", "REQUEST_INTERVAL">>
    /\ Len(ret) = 1

\* the sum of shares x entry price over the open positions
RECURSIVE cost_basis(_)
cost_basis(positions) ==
    IF positions = <<>> THEN 0
    ELSE Head(positions).shares * Head(positions).entry_price + cost_basis(Tail(positions))

\* the sum of the pnl of the trades
RECURSIVE realised(_)
realised(trades) == IF trades = <<>> THEN 0 ELSE pnl(Head(trades)) + realised(Tail(trades))

\* C27: in every state, cash plus the cost basis of the open positions equals
\* the initial capital plus the realised profit and loss of all trades in the
\* ledger.
C27_CostBasisAccounting ==
    portfolio.cash + cost_basis(portfolio.positions)
        = portfolio.initial_capital + realised(portfolio.closed_trades)

\* a position is open after a trade was closed with a gain or a loss
C27_Witness ==
    /\ portfolio.positions # <<>>
    /\ \E i \in DOMAIN portfolio.closed_trades : pnl(portfolio.closed_trades[i]) # 0
    /\ portfolio.cash # portfolio.initial_capital

\* what the forced liquidation of the positions pays: shares x close for each
\* position with a bar on the last date
RECURSIVE liquidated(_)
liquidated(positions) ==
    IF positions = <<>> THEN 0
    ELSE (IF has_bar(bar, Head(positions).code) THEN marked(Head(positions)) ELSE 0)
         + liquidated(Tail(positions))

\* C28: final_nav is the NAV of the last trading date as it stood before the
\* forced liquidation, the cash plus the marked value of the positions open
\* then; when each of those positions has a bar on that date, the run ends
\* with no open position and with cash equal to final_nav; and with an empty
\* trading calendar final_nav is the initial capital.
C28_FinalNav ==
    /\ (pc = "close") =>
          /\ nav_history[Len(nav_history)][1] = date
          /\ final_nav = portfolio.cash + marked_value(portfolio.positions)
    /\ (pc = "done" /\ day > 0) =>
          /\ Len(nav_history) = day
          /\ nav_history[day][1] = date
          /\ final_nav = nav_history[day][2]
          /\ final_nav = portfolio.cash - liquidated(before_close)
                             + marked_value(before_close)
          /\ (\A i \in DOMAIN before_close : has_bar(bar, before_close[i].code))
                => (portfolio.positions = <<>> /\ portfolio.cash = final_nav)
    /\ (pc = "done" /\ day = 0) => final_nav = portfolio.initial_capital

\* the run ended by liquidating two positions at a gain or a loss, after a
\* NAV history that was not constant
C28_Witness ==
    /\ pc = "done"
    /\ Len(before_close) = 2
    /\ \A i \in DOMAIN before_close : has_bar(bar, before_close[i].code)
    /\ portfolio.positions = <<>>
    /\ portfolio.cash = final_nav
    /\ final_nav # portfolio.initial_capital
    /\ final_nav # nav_history[1][2]

\* the trading dates after the signal date of sig whose loop body has run to
\* its end: those with a NAV, and the current date once its signals are in
processed ==
    {nav_history[i][1] : i \in DOMAIN nav_history} \cup (IF pc = "nav" THEN {date} ELSE {})

days_since(sig) == Cardinality({d \in processed : d > sig.signal_date})

\* C29: at the end of every date, each pending signal was registered on a
\* processed date, its days_waited is the number of trading dates processed
\* after its signal date, whether or not its instrument had a bar on them, and
\* 0 <= days_waited <= entry_window; so no signal is pending at the end of a
\* date more than entry_window trading dates after its signal date.
C29_DaysWaited ==
    pc \in {"nav", "loop", "close", "done"} =>
        \A i \in DOMAIN pending :
            LET sig == pending[i]
            IN  /\ sig.signal_date \in processed
                /\ sig.days_waited = days_since(sig)
                /\ 0 <= sig.days_waited
                /\ sig.days_waited <= cfg.entry_window

\* a signal has waited its whole window, the last date without a bar of its
\* instrument, across a gap in the calendar
C29_Witness ==
    /\ pc = "close"
    /\ cfg.entry_window = 1
    /\ \E i \in DOMAIN pending :
          /\ pending[i].days_waited = 1
          /\ ~has_bar(bar, pending[i].code)
          /\ date - pending[i].signal_date > 1

\* the codes sold by the exit evaluation of the current date
sold_today ==
    {portfolio.closed_trades[k].code :
        k \in {j \in DOMAIN portfolio.closed_trades :
                  portfolio.closed_trades[j].exit_date = date}}

\* C30: from the exit evaluation of a date to the end of that date, an
\* instrument sold by it has no open position, whatever its signal and its
\* candle of that date; a signal of that date puts it into the pending dict as
\* a signal of that date that has not waited; and a position of an instrument
\* is entered on a later date than the exit of every trade of the instrument.
C30_NoReentryOnExitDay ==
    /\ pc \in {"pending", "entries", "signals", "nav", "close"} =>
          \A code \in sold_today :
              /\ ~has_position(portfolio, code)
              /\ (pc \in {"nav", "close"} /\ code \in signals) =>
                    /\ has_key(pending, code)
                    /\ dict_get(pending, code).signal_date = date
                    /\ dict_get(pending, code).days_waited = 0
    /\ \A k \in DOMAIN portfolio.closed_trades, i \in DOMAIN portfolio.positions :
          portfolio.positions[i].code = portfolio.closed_trades[k].code
              => portfolio.positions[i].entry_date > portfolio.closed_trades[k].exit_date

\* an instrument was sold by the exit evaluation on a date on which it has a
\* signal and a bearish candle, and the date ends with it pending, not held
C30_Witness ==
    /\ pc = "nav"
    /\ \E code \in sold_today :
          /\ code \in signals
          /\ has_bar(bar, code)
          /\ is_bearish_candle(bar[code])
          /\ has_key(pending, code)
          /\ ~has_position(portfolio, code)

====
